---------------------------- MODULE Spec2Model ----------------------------
(***************************************************************************)
(* Model of open-modbus-goateway: the MQTT topic templating engine         *)
(* (internal/mqtt/topic.go), the request grammar and handler               *)
(* (internal/handlers/modbus.go) and the worker-pool dispatcher            *)
(* (internal/mqtt client).                                                 *)
(*                                                                         *)
(* Go strings are modelled as sequences of one-character strings, so that  *)
(* strings.Split, strings.Fields, strings.Trim, strconv.ParseUint and the  *)
(* placeholder regular expression are computed character by character.     *)
(***************************************************************************)
EXTENDS Integers, Sequences, FiniteSets, TLC

(***************************************************************************)
(* Bounds of the model.                                                    *)
(***************************************************************************)
MaxSegs == 2

MaxValues == 2

\* workers passed to NewClient (main passes 4)
NumWorkers == 2

\* messages the broker delivers in one run
MaxMsgs == 2

\* firings of the one-minute ticker in one run
MaxTicks == 1

(***************************************************************************)
(* Character classes and elementary string functions (Go package strings). *)
(***************************************************************************)
Digits == <<"0", "1", "2", "3", "4", "5", "6", "7", "8", "9">>

IsDigit(c) == \E i \in 1..10 : Digits[i] = c

DigitVal(c) == (CHOOSE i \in 1..10 : Digits[i] = c) - 1

Letters == {"a", "b", "c", "d", "e", "f", "g", "h", "i", "j", "k", "l", "m",
            "n", "o", "p", "q", "r", "s", "t", "u", "v", "w", "x", "y", "z",
            "A", "B", "C", "D", "E", "F", "G", "H", "I", "J", "K", "L", "M",
            "N", "O", "P", "Q", "R", "S", "T", "U", "V", "W", "X", "Y", "Z"}

\* strings.HasPrefix(s, p) for a one-character prefix p
HasPrefix(s, p) == Len(s) >= 1 /\ s[1] = p

\* strings.HasSuffix(s, p) for a one-character suffix p
HasSuffix(s, p) == Len(s) >= 1 /\ s[Len(s)] = p

RECURSIVE TrimLeft(_, _)
TrimLeft(s, cutset) ==
    IF s # <<>> /\ s[1] \in cutset THEN TrimLeft(Tail(s), cutset) ELSE s

RECURSIVE TrimRight(_, _)
TrimRight(s, cutset) ==
    IF s # <<>> /\ s[Len(s)] \in cutset
    THEN TrimRight(SubSeq(s, 1, Len(s) - 1), cutset)
    ELSE s

\* strings.Trim(s, cutset): strips every leading and trailing character of cutset
Trim(s, cutset) == TrimRight(TrimLeft(s, cutset), cutset)

RECURSIVE SplitAcc(_, _, _, _)
SplitAcc(s, sep, cur, acc) ==
    IF s = <<>> THEN Append(acc, cur)
    ELSE IF s[1] = sep THEN SplitAcc(Tail(s), sep, <<>>, Append(acc, cur))
    ELSE SplitAcc(Tail(s), sep, Append(cur, s[1]), acc)

\* strings.Split(s, sep) for a one-character separator: always >= 1 part
Split(s, sep) == SplitAcc(s, sep, <<>>, <<>>)

RECURSIVE Join(_, _)
\* strings.Join(parts, sep)
Join(parts, sep) ==
    IF parts = <<>> THEN <<>>
    ELSE IF Len(parts) = 1 THEN parts[1]
    ELSE parts[1] \o <<sep>> \o Join(Tail(parts), sep)

(***************************************************************************)
(* internal/mqtt/topic.go                                                  *)
(***************************************************************************)
\* the character class [a-zA-Z0-9_] of placeholderRegex
IsNameChar(c) == c \in Letters \/ IsDigit(c) \/ c = "_"

RECURSIVE NameRun(_, _)
\* length of the longest run of name characters of s starting at index i
NameRun(s, i) ==
    IF i <= Len(s) /\ IsNameChar(s[i]) THEN 1 + NameRun(s, i + 1) ELSE 0

\* placeholderRegex \{([a-zA-Z0-9_]+)\} matched at index i of s: the index of
\* the closing brace, or 0 when there is no match starting at i
placeholderRegex(s, i) ==
    IF s[i] = "{" /\ NameRun(s, i + 1) >= 1
       /\ i + 1 + NameRun(s, i + 1) <= Len(s)
       /\ s[i + 1 + NameRun(s, i + 1)] = "}"
    THEN i + 1 + NameRun(s, i + 1)
    ELSE 0

RECURSIVE ReplaceAllFrom(_, _)
\* regexp.ReplaceAllString(s, "+"): leftmost non-overlapping matches
ReplaceAllFrom(s, i) ==
    IF i > Len(s) THEN <<>>
    ELSE IF placeholderRegex(s, i) # 0
         THEN <<"+">> \o ReplaceAllFrom(s, placeholderRegex(s, i) + 1)
         ELSE <<s[i]>> \o ReplaceAllFrom(s, i + 1)

\* Topic.WithWildcard
WithWildcard(format) == ReplaceAllFrom(format, 1)

\* IsPlaceholderPart that takes every format segment for a placeholder
IsPlaceholderPart_Always(part) == TRUE

\* the test both ParseTopic and Build apply to a format segment
IsPlaceholderPart(part) == HasPrefix(part, "{") /\ HasSuffix(part, "}")

\* key := strings.Trim(part, "{}")
PlaceholderKey(part) == Trim(part, {"{", "}"})

\* values[key] = v on a Go map, modelled as a function
MapSet(m, k, v) == [x \in DOMAIN m \cup {k} |-> IF x = k THEN v ELSE m[x]]

EmptyMap == [x \in {} |-> <<>>]

RECURSIVE ParseTopicLoop(_, _, _, _)
\* the for loop of ParseTopic; ok = FALSE stands for the error return
ParseTopicLoop(formatParts, topicParts, i, values) ==
    IF i > Len(formatParts) THEN [ok |-> TRUE, Values |-> values]
    ELSE IF IsPlaceholderPart(formatParts[i])
         THEN ParseTopicLoop(formatParts, topicParts, i + 1,
                  MapSet(values, PlaceholderKey(formatParts[i]), topicParts[i]))
         ELSE IF formatParts[i] # topicParts[i]
              THEN [ok |-> FALSE, Values |-> EmptyMap]
              ELSE ParseTopicLoop(formatParts, topicParts, i + 1, values)

\* ParseTopic(topic, format): (*Topic, error)
ParseTopic(topic, format) ==
    LET topicParts == Split(topic, "/")
        formatParts == Split(format, "/")
    IN  IF Len(topicParts) # Len(formatParts)
        THEN [ok |-> FALSE, Format |-> format, Values |-> EmptyMap]
        ELSE LET r == ParseTopicLoop(formatParts, topicParts, 1, EmptyMap)
             IN  [ok |-> r.ok, Format |-> format, Values |-> r.Values]

RECURSIVE BuildLoop_SkipLast(_, _, _)
\* BuildLoop that stops one segment early
BuildLoop_SkipLast(formatParts, values, i) ==
    IF i >= Len(formatParts) THEN [ok |-> TRUE, parts |-> formatParts]
    ELSE IF IsPlaceholderPart(formatParts[i])
         THEN IF PlaceholderKey(formatParts[i]) \notin DOMAIN values
              THEN [ok |-> FALSE, parts |-> <<>>]
              ELSE BuildLoop_SkipLast([formatParts EXCEPT
                                 ![i] = values[PlaceholderKey(formatParts[i])]],
                             values, i + 1)
         ELSE BuildLoop_SkipLast(formatParts, values, i + 1)

RECURSIVE BuildLoop(_, _, _)
\* the for loop of Build; ok = FALSE stands for the error return
BuildLoop(formatParts, values, i) ==
    IF i > Len(formatParts) THEN [ok |-> TRUE, parts |-> formatParts]
    ELSE IF IsPlaceholderPart(formatParts[i])
         THEN IF PlaceholderKey(formatParts[i]) \notin DOMAIN values
              THEN [ok |-> FALSE, parts |-> <<>>]
              ELSE BuildLoop([formatParts EXCEPT
                                 ![i] = values[PlaceholderKey(formatParts[i])]],
                             values, i + 1)
         ELSE BuildLoop(formatParts, values, i + 1)

\* Topic.Build: (string, error)
Build(t) ==
    LET r == BuildLoop(Split(t.Format, "/"), t.Values, 1)
    IN  [ok |-> r.ok, topic |-> Join(r.parts, "/")]

(***************************************************************************)
(* Go packages strconv and fmt.                                            *)
(***************************************************************************)
Whitespace == {" ", "\t", "\n", "\r"}

RECURSIVE FieldsAcc(_, _, _)
FieldsAcc(s, cur, acc) ==
    IF s = <<>> THEN (IF cur = <<>> THEN acc ELSE Append(acc, cur))
    ELSE IF s[1] \in Whitespace
         THEN FieldsAcc(Tail(s), <<>>, IF cur = <<>> THEN acc ELSE Append(acc, cur))
         ELSE FieldsAcc(Tail(s), Append(cur, s[1]), acc)

\* strings.Fields(s): the maximal runs of non-space characters
Fields(s) == FieldsAcc(s, <<>>, <<>>)

AllDigits(s) == \A i \in 1..Len(s) : IsDigit(s[i])

\* a digit string without its leading zeros ("0" becomes the empty string)
Canonical(s) == TrimLeft(s, {"0"})

RECURSIVE DecLess(_, _)
\* lexicographic a < b for digit strings of equal length
DecLess(a, b) ==
    IF a = <<>> THEN FALSE
    ELSE IF a[1] # b[1] THEN DigitVal(a[1]) < DigitVal(b[1])
    ELSE DecLess(Tail(a), Tail(b))

\* a > b for canonical digit strings
DecGreater(a, b) ==
    Len(a) > Len(b) \/ (Len(a) = Len(b) /\ DecLess(b, a))

RECURSIVE DecVal(_)
\* the number written by a digit string
DecVal(s) ==
    IF s = <<>> THEN 0
    ELSE 10 * DecVal(SubSeq(s, 1, Len(s) - 1)) + DigitVal(s[Len(s)])

\* the largest value of an unsigned integer of the given width, in decimal
MaxUintDec(bitSize) ==
    CASE bitSize = 8 -> <<"2", "5", "5">>
      [] bitSize = 16 -> <<"6", "5", "5", "3", "5">>
      [] bitSize = 64 -> <<"1", "8", "4", "4", "6", "7", "4", "4", "0", "7",
                           "3", "7", "0", "9", "5", "5", "1", "6", "1", "5">>

\* the largest magnitude of an int: 2^63 - 1, and 2^63 after a minus sign
MaxIntDec(negative) ==
    <<"9", "2", "2", "3", "3", "7", "2", "0", "3", "6",
      "8", "5", "4", "7", "7", "5", "8", "0">> \o (IF negative THEN <<"8">> ELSE <<"7">>)

\* the text of a *strconv.NumError
NumError(fn, s, msg) ==
    <<"strconv.", fn, ": parsing ", "\"">> \o s \o <<"\"", ": ", msg>>

NilError == <<"<nil>">>

\* strconv.ParseUint(s, 10, bitSize): (uint64, error); err = NilError when nil
ParseUint(s, bitSize) ==
    IF s = <<>> \/ ~AllDigits(s)
    THEN [ok |-> FALSE, val |-> 0, err |-> NumError("ParseUint", s, "invalid syntax")]
    ELSE IF DecGreater(Canonical(s), MaxUintDec(bitSize))
    THEN [ok |-> FALSE, val |-> 0, err |-> NumError("ParseUint", s, "value out of range")]
    ELSE [ok |-> TRUE, val |-> DecVal(s), err |-> NilError]

\* strconv.Atoi(s): (int, error): an optional sign, then decimal digits
Atoi(s) ==
    LET signed == s # <<>> /\ s[1] \in {"+", "-"}
        body == IF signed THEN Tail(s) ELSE s
    IN  IF body = <<>> \/ ~AllDigits(body)
        THEN [ok |-> FALSE, val |-> 0, err |-> NumError("Atoi", s, "invalid syntax")]
        ELSE IF DecGreater(Canonical(body), MaxIntDec(signed /\ s[1] = "-"))
        THEN [ok |-> FALSE, val |-> 0, err |-> NumError("Atoi", s, "value out of range")]
        ELSE [ok |-> TRUE,
              val |-> IF signed /\ s[1] = "-" THEN 0 - DecVal(body) ELSE DecVal(body),
              err |-> NilError]

RECURSIVE ItoaPos(_)
ItoaPos(n) ==
    IF n < 10 THEN <<Digits[n + 1]>> ELSE ItoaPos(n \div 10) \o <<Digits[(n % 10) + 1]>>

\* strconv.Itoa(n) and the %d verb of fmt
Itoa(n) == IF n < 0 THEN <<"-">> \o ItoaPos(0 - n) ELSE ItoaPos(n)

(***************************************************************************)
(* internal/handlers/modbus.go                                             *)
(***************************************************************************)
\* the value of a nil *ModbusRequest
NilRequest ==
    [Cookie |-> 0, IPAddress |-> <<>>, Port |-> 0, Timeout |-> 0, SlaveID |-> 0,
     FunctionCode |-> 0, RegisterAddress |-> 0, RegisterCount |-> 0, Data |-> <<>>]

ParseError(err) == [ok |-> FALSE, req |-> NilRequest, err |-> err]

\* PortInvalid without the lower bound
PortInvalid_NoLowerBound(r) == ~r.ok \/ r.val > 65535

\* err != nil || port < 1 || port > 65535
PortInvalid(r) == ~r.ok \/ r.val < 1 \/ r.val > 65535

\* TimeoutInvalid without the upper bound
TimeoutInvalid_NoUpperBound(r) == ~r.ok \/ r.val < 1

\* err != nil || timeout < 1 || timeout > 999
TimeoutInvalid(r) == ~r.ok \/ r.val < 1 \/ r.val > 999

\* err != nil || slaveID < 1 || slaveID > 255
SlaveIDInvalid(r) == ~r.ok \/ r.val < 1 \/ r.val > 255

\* DataMismatch that only rejects surplus values
DataMismatch_OnlySurplus(data, registerCount) == Len(data) > registerCount

\* len(data) != int(registerCount)
DataMismatch(data, registerCount) == Len(data) # registerCount

\* RegisterAddress: uint16(registerAddress)
RegisterAddressOf(registerAddress) == registerAddress % 65536

\* the for loop over strings.Split(parts[10], ","): the parsed values
DataValues(rawData) == [i \in 1..Len(rawData) |-> ParseUint(rawData[i], 16).val % 65536]

\* the first element of rawData that ParseUint rejects, 0 when there is none
FirstBadData(rawData) ==
    IF \E i \in 1..Len(rawData) : ~ParseUint(rawData[i], 16).ok
    THEN CHOOSE i \in 1..Len(rawData) :
            /\ ~ParseUint(rawData[i], 16).ok
            /\ \A j \in 1..(i - 1) : ParseUint(rawData[j], 16).ok
    ELSE 0

\* parseRequest(payload): (*ModbusRequest, error)
parseRequest(payload) ==
    LET parts == Fields(payload)
        \* Go slices are 0-indexed: parts[k] of the source is P(k)
        P(k) == parts[k + 1]
        cookie == ParseUint(P(1), 64)
        port == ParseUint(P(4), 16)
        timeout == Atoi(P(5))
        slaveID == ParseUint(P(6), 8)
        functionCode == ParseUint(P(7), 8)
        registerAddress == ParseUint(P(8), 16)
        count == ParseUint(P(9), 16)
        rawData == Split(P(10), ",")
        Request(registerCount, data) ==
            [ok |-> TRUE,
             req |-> [Cookie |-> cookie.val,
                      IPAddress |-> P(3),
                      Port |-> port.val % 65536,
                      \* time.Duration(timeout) * time.Second, in seconds
                      Timeout |-> timeout.val,
                      SlaveID |-> slaveID.val % 256,
                      FunctionCode |-> functionCode.val % 256,
                      RegisterAddress |-> RegisterAddressOf(registerAddress.val),
                      RegisterCount |-> registerCount,
                      Data |-> data],
             err |-> <<>>]
    IN  IF Len(parts) < 9 THEN ParseError(<<"incomplete request payload">>)
        ELSE IF ~cookie.ok THEN ParseError(<<"invalid COOKIE value: ">> \o cookie.err)
        ELSE IF PortInvalid(port) THEN ParseError(<<"invalid PORT value: ">> \o port.err)
        ELSE IF TimeoutInvalid(timeout)
             THEN ParseError(<<"invalid TIMEOUT value: ">> \o timeout.err)
        ELSE IF SlaveIDInvalid(slaveID)
             THEN ParseError(<<"invalid SLAVE_ID value: ">> \o slaveID.err)
        ELSE IF ~functionCode.ok
             THEN ParseError(<<"invalid MODBUS_FUNCTION value: ">> \o functionCode.err)
        ELSE IF ~registerAddress.ok
             THEN ParseError(<<"invalid REGISTER_NUMBER value: ">> \o registerAddress.err)
        ELSE IF functionCode.val \in {1, 2, 3, 4}
             THEN IF Len(parts) < 10
                  THEN ParseError(<<"missing REGISTER_COUNT for function ">>
                                      \o Itoa(functionCode.val))
                  ELSE IF ~count.ok
                  THEN ParseError(<<"invalid REGISTER_COUNT value: ">> \o count.err)
                  ELSE Request(count.val % 65536, <<>>)
        ELSE IF functionCode.val \in {15, 16}
             THEN IF Len(parts) < 11
                  THEN ParseError(<<"missing REGISTER_COUNT or DATA for function ">>
                                      \o Itoa(functionCode.val))
                  ELSE IF ~count.ok
                  THEN ParseError(<<"invalid REGISTER_COUNT value: ">> \o count.err)
                  ELSE IF FirstBadData(rawData) # 0
                  THEN ParseError(<<"invalid DATA value: ">>
                            \o ParseUint(rawData[FirstBadData(rawData)], 16).err)
                  ELSE IF DataMismatch(DataValues(rawData), count.val % 65536)
                  THEN ParseError(<<"mismatch between REGISTER_COUNT and DATA length">>)
                  ELSE Request(count.val % 65536, DataValues(rawData))
        ELSE Request(0, <<>>)

\* what the Modbus device and its client library answer to one query: whether
\* the connection opens, whether the operation succeeds, and the values read
BackendOutcomes(regSets) == [open : BOOLEAN, op : BOOLEAN, regs : regSets]

QueryError(err) == [panic |-> FALSE, ok |-> FALSE, response |-> <<>>, err |-> err]

QueryPanic == [panic |-> TRUE, ok |-> FALSE, response |-> <<>>, err |-> <<>>]

\* "Format results into strings"
QueryResults(results) ==
    [panic |-> FALSE, ok |-> TRUE,
     response |-> [i \in 1..Len(results) |-> Itoa(results[i])], err |-> <<>>]

\* the conversion of the bits read to uint16 values (1 or 0)
BitsToResults(regs) == [i \in 1..Len(regs) |-> IF regs[i] % 2 = 1 THEN 1 ELSE 0]

\* ModbusHandler.executeModbusQuery(req): ([]string, error); panic = TRUE is
\* the run-time panic of indexing req.Data[0] on an empty slice
executeModbusQuery(req, out) ==
    IF ~out.open THEN QueryError(<<"failed to connect to Modbus server: ", "refused">>)
    ELSE CASE req.FunctionCode = 1 ->
                IF ~out.op THEN QueryError(<<"failed to read coils: ", "device">>)
                ELSE QueryResults(BitsToResults(out.regs))
           [] req.FunctionCode = 2 ->
                IF ~out.op THEN QueryError(<<"failed to read discrete inputs: ", "device">>)
                ELSE QueryResults(BitsToResults(out.regs))
           [] req.FunctionCode = 3 ->
                IF ~out.op THEN QueryError(<<"failed to read holding registers: ", "device">>)
                ELSE QueryResults(out.regs)
           [] req.FunctionCode = 4 ->
                IF ~out.op THEN QueryError(<<"failed to read input registers: ", "device">>)
                ELSE QueryResults(out.regs)
           [] req.FunctionCode = 5 ->
                IF Len(req.Data) = 0 THEN QueryPanic
                ELSE IF ~out.op THEN QueryError(<<"failed to write single coil: ", "device">>)
                ELSE QueryResults(<<>>)
           [] req.FunctionCode = 6 ->
                IF Len(req.Data) = 0 THEN QueryPanic
                ELSE IF ~out.op
                     THEN QueryError(<<"failed to write single register: ", "device">>)
                ELSE QueryResults(<<>>)
           [] req.FunctionCode = 15 ->
                IF ~out.op THEN QueryError(<<"failed to write multiple coils: ", "device">>)
                ELSE QueryResults(<<>>)
           [] req.FunctionCode = 16 ->
                IF ~out.op
                THEN QueryError(<<"failed to write multiple registers: ", "device">>)
                ELSE QueryResults(<<>>)
           [] OTHER ->
                QueryError(<<"unsupported function code: ">> \o Itoa(req.FunctionCode))

\* DummyHandler.executeDummyQuery(req): ([]string, error)
executeDummyQuery(req) ==
    IF req.FunctionCode \in {1, 2, 3, 4}
    THEN QueryResults([i \in 1..req.RegisterCount |-> 1])
    ELSE QueryResults(<<>>)

\* fmt.Sprintf("%d ERROR: %v", cookie, err)
ErrorResponse(cookie, err) == Itoa(cookie) \o <<" ERROR: ">> \o err

\* fmt.Sprintf("%d OK %s", cookie, strings.Join(response, " ")) and "%d OK"
OkResponse(cookie, response) ==
    IF Len(response) > 0
    THEN Itoa(cookie) \o <<" OK ">> \o Join(response, " ")
    ELSE Itoa(cookie) \o <<" OK">>

\* the part of Handle that follows the query, common to both handlers
Respond(parsed, query) ==
    [panic |-> query.panic,
     parsed |-> TRUE,
     request |-> parsed.req,
     text |-> IF query.panic THEN <<>>
              ELSE IF ~query.ok THEN ErrorResponse(parsed.req.Cookie, query.err)
              ELSE OkResponse(parsed.req.Cookie, query.response)]

\* the response to a payload that parseRequest rejects
RejectResponse(parsed) ==
    [panic |-> FALSE, parsed |-> FALSE, request |-> NilRequest,
     text |-> ErrorResponse(0, parsed.err)]

\* ModbusHandler.Handle(topic, payload): the response text; request is the
\* request handed to executeModbusQuery when parsed = TRUE
ModbusHandle(payload, out) ==
    IF ~parseRequest(payload).ok
    THEN RejectResponse(parseRequest(payload))
    ELSE Respond(parseRequest(payload),
                 executeModbusQuery(parseRequest(payload).req, out))

\* DummyHandler.Handle(topic, payload)
DummyHandle(payload) ==
    IF ~parseRequest(payload).ok
    THEN RejectResponse(parseRequest(payload))
    ELSE Respond(parseRequest(payload), executeDummyQuery(parseRequest(payload).req))

\* c.handler.Handle for the handler the client was constructed with
Handle(handler, payload, out) ==
    IF handler = "modbus" THEN ModbusHandle(payload, out) ELSE DummyHandle(payload)

(***************************************************************************)
(* Words used to write topics and payloads.                                *)
(***************************************************************************)
W_modbus == <<"m", "o", "d", "b", "u", "s">>

W_device == <<"{", "d", "e", "v", "i", "c", "e", "}">>

W_request == <<"r", "e", "q", "u", "e", "s", "t">>

W_response == <<"r", "e", "s", "p", "o", "n", "s", "e">>

W_status == <<"s", "t", "a", "t", "u", "s">>

W_dev1 == <<"d", "e", "v", "1">>

W_dev2 == <<"d", "e", "v", "2">>

\* request_topic and response_topic of the documented configuration
RequestTopic == Join(<<W_modbus, W_device, W_request>>, "/")

ResponseTopic == Join(<<W_modbus, W_device, W_response>>, "/")

(***************************************************************************)
(* Tokens of the command grammar used as inputs:                           *)
(*   <unused> <cookie> <unused> <address> <port> <timeout_s> <unit_id>     *)
(*   <op_code> <register> [<count>] [<comma_separated_values>]             *)
(***************************************************************************)
T_CMD == <<"C", "M", "D">>

T_ACT == <<"A", "C", "T">>

T_host == <<"h", "o", "s", "t">>

\* cookie tokens: three numbers and one that is not a number
CookieToks ==
    { <<"3">>,
      <<"7">>,
      <<"4", "2">>,
      <<"x">> }

\* target address tokens
AddressToks ==
    { <<"h", "o", "s", "t">>,
      <<"1", "0", ".", "0", ".", "0", ".", "5">> }

\* port tokens around the bounds 1 and 65535
PortToks ==
    { <<"0">>,
      <<"1">>,
      <<"5", "0", "2">>,
      <<"6", "5", "5", "3", "5">>,
      <<"6", "5", "5", "3", "6">>,
      <<"x">> }

\* timeout tokens around the bounds 1 and 999
TimeoutToks ==
    { <<"0">>,
      <<"1">>,
      <<"5">>,
      <<"9", "9", "9">>,
      <<"1", "0", "0", "0">>,
      <<"-", "1">>,
      <<"+", "5">> }

\* unit id tokens around the bounds 1 and 255
UnitToks ==
    { <<"0">>,
      <<"1">>,
      <<"2", "5", "5">>,
      <<"2", "5", "6">> }

\* operation code tokens: supported, unsupported and out of range
CodeToks ==
    { <<"1">>,
      <<"3">>,
      <<"5">>,
      <<"6">>,
      <<"1", "5">>,
      <<"1", "6">>,
      <<"7">>,
      <<"2", "5", "6">> }

\* register number tokens
RegisterToks ==
    { <<"0">>,
      <<"1">>,
      <<"1", "0">>,
      <<"1", "0", "0">>,
      <<"6", "5", "5", "3", "5">>,
      <<"6", "5", "5", "3", "6">> }

\* register count tokens
CountToks ==
    { <<"0">>,
      <<"1">>,
      <<"2">>,
      <<"4">>,
      <<"x">>,
      <<"6", "5", "5", "3", "6">> }

\* single data values
ValueToks ==
    { <<"5">>,
      <<"9">>,
      <<"x">> }

\* comma-separated value lists of 1..MaxValues values
DataToks == { Join(p, ",") : p \in UNION { [1..n -> ValueToks] : n \in 1..MaxValues } }

\* the eleven tokens of a payload that parses for every operation code
BaseTokens(cookie, code) ==
    <<T_CMD, cookie, T_ACT, T_host, <<"5", "0", "2">>, <<"5">>, <<"1">>, code,
      <<"1", "0">>, <<"2">>, <<"5", ",", "9">>>>

\* the tokens of positions 3..10 (0-indexed) that may replace a base token
FieldToks(k) ==
    CASE k = 3 -> AddressToks
      [] k = 4 -> PortToks
      [] k = 5 -> TimeoutToks
      [] k = 6 -> UnitToks
      [] k = 8 -> RegisterToks
      [] k = 9 -> CountToks
      [] k = 10 -> DataToks

\* payload lengths in tokens: empty, one short of complete, 9, 10 and 11
PayloadLens == {0, 8, 9, 10, 11}

\* the payloads of the four documented scenarios
Scenario1 == Join(<<T_CMD, <<"4", "2">>, T_ACT,
                    <<"1", "0", ".", "0", ".", "0", ".", "5">>,
                    <<"5", "0", "2">>, <<"5">>, <<"1">>, <<"3">>,
                    <<"1", "0", "0">>, <<"4">>>>, " ")

Scenario2 == Join(<<T_CMD, <<"7">>, T_ACT, T_host, <<"5", "0", "2">>, <<"5">>,
                    <<"1">>, <<"1", "6">>, <<"1", "0">>, <<"2">>,
                    <<"5", ",", "9">>>>, " ")

Scenario3 == Join(<<T_CMD, <<"3">>, T_ACT, T_host>>, " ")

Scenario4 == Join(<<T_CMD, <<"3">>, T_ACT, T_host, <<"5", "0", "2">>, <<"5">>,
                    <<"1">>, <<"1", "6">>, <<"1">>, <<"2">>, <<"5">>>>, " ")

\* base payloads with one token replaced, cut to a length, and the scenarios
Payloads ==
    { Join(SubSeq([BaseTokens(c, code) EXCEPT ![k + 1] = v], 1, n), " ") :
        <<c, code, k, v, n>> \in
            { x \in CookieToks \X CodeToks \X {3, 4, 5, 6, 8, 9, 10}
                      \X (AddressToks \cup PortToks \cup TimeoutToks \cup UnitToks
                             \cup RegisterToks \cup CountToks \cup DataToks)
                      \X PayloadLens : x[4] \in FieldToks(x[3]) } }
        \cup {Scenario1, Scenario2, Scenario3, Scenario4}

\* the values a device may return to a read
RegSets == { <<>>, <<10, 20, 30, 40>>, <<5, 0>> }

Handlers == {"modbus", "dummy"}

(***************************************************************************)
(* State.  tvars: one evaluation of the topic functions; the remaining     *)
(* groups are declared with the components they belong to.                 *)
(***************************************************************************)
VARIABLES tFormat, tAddr, tResp, tStep, tWild, tTopic, tBuilt

tvars == <<tFormat, tAddr, tResp, tStep, tWild, tTopic, tBuilt>>

\* rvars: one evaluation of the request grammar and of a handler
VARIABLES rHandler, rPayload, rStep, rParsed, rOut, rResult

rvars == <<rHandler, rPayload, rStep, rParsed, rOut, rResult>>

\* dvars: the Client of the dispatcher and the goroutines it runs.
\*   handler                the Handler the client was constructed with
\*   msgs                   the messages delivered by the broker, in order
\*   prod                   the message the subscription callback is sending (0: none)
\*   messageCh, chClosed    the buffered channel c.messageCh and whether it is closed
\*   connected              the broker connection is up
\*   ctxDone                c.ctx has been cancelled
\*   started                StartWorkers has run
\*   stopPc                 the position of Stop
\*   wpc, wmsg, wTopic, wResp   position and locals of each worker goroutine
\*   requestCounter         c.requestCounter
\*   lpc, lcount, logged    position and local of the counter goroutine; the
\*                          sum of the counts it has logged
\*   ticks                  the number of times the ticker has fired
\*   published              the Publish calls made for each message
\*   calls                  the requests handed to the query function for
\*                          each message
\*   dequeued, processed    messages received by a worker; messages whose
\*                          processMessage has returned
\*   atClose                the messages in the channel when Stop closed it
\*   panicked               a goroutine has panicked (the process is dead)
VARIABLES handler, msgs, prod, messageCh, chClosed, connected, ctxDone, started,
          stopPc, wpc, wmsg, wTopic, wResp, requestCounter, lpc, lcount, logged,
          ticks, published, calls, dequeued, processed, atClose, panicked

dvars == <<handler, msgs, prod, messageCh, chClosed, connected, ctxDone, started,
           stopPc, wpc, wmsg, wTopic, wResp, requestCounter, lpc, lcount, logged,
           ticks, published, calls, dequeued, processed, atClose, panicked>>

vars == <<tvars, rvars, dvars>>

(***************************************************************************)
(* Inputs of the topic functions: formats and addresses of 1..MaxSegs      *)
(* segments over a small stock of segments, plus the documented ones.      *)
(***************************************************************************)
FormatSegs == { <<"m">>,
                <<"{", "d", "}">>,
                <<"{", "e", "}">>,
                <<"{", "}">>,
                <<"{", "{", "d", "}">>,
                <<"x", "{", "d", "}">>,
                <<"{", "d", "-", "e", "}">> }

AddrSegs == { <<"m">>, <<"a">>, <<"b">> }

SegSeqs(segs) == UNION { [1..n -> segs] : n \in 1..MaxSegs }

Formats == { Join(p, "/") : p \in SegSeqs(FormatSegs) } \cup {RequestTopic}

Addrs == { Join(p, "/") : p \in SegSeqs(AddrSegs) }
             \cup { Join(<<W_modbus, W_dev1, W_request>>, "/") }

RespFormats == { ResponseTopic,
                 Join(<<<<"r">>, <<"{", "d", "}">>>>, "/"),
                 Join(<<<<"{", "e", "}">>, <<"{", "d", "}">>>>, "/") }

NoTopic == [ok |-> FALSE, Format |-> <<>>, Values |-> EmptyMap]

NoBuild == [ok |-> FALSE, topic |-> <<>>]

NoOutcome == [open |-> FALSE, op |-> FALSE, regs |-> <<>>]

NoResult == [panic |-> FALSE, parsed |-> FALSE, request |-> NilRequest, text |-> <<>>]

RequestIdle ==
    /\ rHandler = "modbus" /\ rPayload = <<>> /\ rStep = "off"
    /\ rParsed = ParseError(<<>>) /\ rOut = NoOutcome /\ rResult = NoResult

Workers == 1..NumWorkers

\* messageCh := make(chan mqtt.Message, workers*10)
QueueFactor == 10

ChanCap == NumWorkers * QueueFactor

\* the state of the client after NewClient and before any delivery
ClientConstructed ==
    /\ msgs = <<>> /\ prod = 0
    /\ messageCh = <<>> /\ chClosed = FALSE
    /\ connected = TRUE /\ ctxDone = FALSE /\ started = FALSE
    /\ stopPc = "running"
    /\ wpc = [w \in Workers |-> "unstarted"]
    /\ wmsg = [w \in Workers |-> 0]
    /\ wTopic = [w \in Workers |-> NoTopic]
    /\ wResp = [w \in Workers |-> <<>>]
    /\ requestCounter = 0
    /\ lpc = "select" /\ lcount = 0 /\ logged = 0 /\ ticks = 0
    /\ published = [m \in 1..MaxMsgs |-> <<>>]
    /\ calls = [m \in 1..MaxMsgs |-> <<>>]
    /\ dequeued = {} /\ processed = {} /\ atClose = {}
    /\ panicked = FALSE

DispatcherIdle == handler = "modbus" /\ ClientConstructed

TopicIdle ==
    /\ tFormat = <<>> /\ tAddr = <<>> /\ tResp = <<>>
    /\ tStep = "off" /\ tWild = <<>> /\ tTopic = NoTopic /\ tBuilt = NoBuild

InitTopic ==
    /\ tFormat \in Formats
    /\ tAddr \in Addrs
    /\ tResp \in RespFormats \cup {tFormat}
    /\ tStep = "start"
    /\ tWild = <<>>
    /\ tTopic = NoTopic
    /\ tBuilt = NoBuild
    /\ RequestIdle
    /\ DispatcherIdle

\* the subscription pattern computed on connect
TWithWildcard ==
    /\ tStep = "start"
    /\ tWild' = WithWildcard(tFormat)
    /\ tStep' = "subscribed"
    /\ UNCHANGED <<tFormat, tAddr, tResp, tTopic, tBuilt, rvars, dvars>>

\* ParseTopic applied to an inbound address
TParseTopic ==
    /\ tStep = "subscribed"
    /\ tTopic' = ParseTopic(tAddr, tFormat)
    /\ tStep' = IF ParseTopic(tAddr, tFormat).ok THEN "parsed" ELSE "rejected"
    /\ UNCHANGED <<tFormat, tAddr, tResp, tWild, tBuilt, rvars, dvars>>

\* Build applied to the response format with the values of the parse
TBuild ==
    /\ tStep = "parsed"
    /\ tBuilt' = Build([Format |-> tResp, Values |-> tTopic.Values])
    /\ tStep' = "built"
    /\ UNCHANGED <<tFormat, tAddr, tResp, tWild, tTopic, rvars, dvars>>

InitRequest ==
    /\ rHandler \in Handlers
    /\ rPayload \in Payloads
    /\ rStep = "start"
    /\ rParsed = ParseError(<<>>)
    /\ rOut = NoOutcome
    /\ rResult = NoResult
    /\ TopicIdle
    /\ DispatcherIdle

\* parseRequest applied to a payload
RParseRequest ==
    /\ rStep = "start"
    /\ rParsed' = parseRequest(rPayload)
    /\ rStep' = "parsed"
    /\ UNCHANGED <<rHandler, rPayload, rOut, rResult, tvars, dvars>>

\* Handle applied to the payload, the device answering with some outcome
RHandle ==
    /\ rStep = "parsed"
    /\ \E out \in BackendOutcomes(RegSets) :
          /\ rOut' = out
          /\ rResult' = Handle(rHandler, rPayload, out)
    /\ rStep' = "handled"
    /\ UNCHANGED <<rHandler, rPayload, rParsed, tvars, dvars>>

NextTopic == TWithWildcard \/ TParseTopic \/ TBuild

SpecTopic == InitTopic /\ [][NextTopic]_vars

NextRequest == RParseRequest \/ RHandle

SpecRequest == InitRequest /\ [][NextRequest]_vars

(***************************************************************************)
(* The dispatcher: Client of the mqtt package, its worker goroutines, its  *)
(* counter goroutine, the subscription callback and Stop.                  *)
(***************************************************************************)
\* the n-th message of the k-th sequence of messages the broker delivers.
\* Odd-numbered messages are addressed to device dev1, even-numbered messages
\* to device dev2 or to a topic that does not match request_topic.  A message
\* carries a read of two holding registers, a write of a single coil, or a
\* payload that is too short; open tells whether the device of the request
\* accepts the connection (client.Connect, modbus.go:153).
\*   k = 1: reads, the device of the even-numbered ones refuses the connection
\*   k = 2: writes of a single coil to dev1, reads of dev2
\*   k = 3: short payloads to dev1, reads sent to a topic that does not match
\*   k = 4: reads sent to a topic one segment short, reads of dev2
MsgShapes(k, n) ==
    CASE k = 1 -> [topic |-> IF n % 2 = 1 THEN W_dev1 ELSE W_dev2,
                   kind |-> "read", open |-> n % 2 = 1]
      [] k = 2 -> [topic |-> IF n % 2 = 1 THEN W_dev1 ELSE W_dev2,
                   kind |-> IF n % 2 = 1 THEN "write" ELSE "read", open |-> TRUE]
      [] k = 3 -> [topic |-> IF n % 2 = 1 THEN W_dev1 ELSE W_status,
                   kind |-> IF n % 2 = 1 THEN "short" ELSE "read", open |-> TRUE]
      [] k = 4 -> [topic |-> IF n % 2 = 1 THEN W_modbus ELSE W_dev2,
                   kind |-> "read", open |-> TRUE]

\* the sequences of messages the broker can deliver in one run
Inboxes == { [n \in 1..MaxMsgs |-> MsgShapes(k, n)] : k \in 1..4 }

\* the cookie token of the n-th delivered message: "41", "42", ...
CookieTok(n) == Itoa(40 + n)

\* msg.Topic() of the n-th delivered message
MsgTopic(n) ==
    IF msgs[n].topic = W_status
    THEN Join(<<W_modbus, W_dev1, W_status>>, "/")
    ELSE IF msgs[n].topic = W_modbus
    THEN Join(<<W_modbus, W_dev1>>, "/")
    ELSE Join(<<W_modbus, msgs[n].topic, W_request>>, "/")

\* string(msg.Payload()) of the n-th delivered message
MsgPayload(n) ==
    CASE msgs[n].kind = "read" ->
            Join(SubSeq(BaseTokens(CookieTok(n), <<"3">>), 1, 10), " ")
      [] msgs[n].kind = "write" ->
            Join(SubSeq(BaseTokens(CookieTok(n), <<"5">>), 1, 9), " ")
      [] msgs[n].kind = "short" ->
            Join(SubSeq(BaseTokens(CookieTok(n), <<"3">>), 1, 4), " ")

\* the values a device returns to the reads of the dispatcher runs
MsgRegSets == { <<10, 20>> }

\* the messages that can be delivered in one run
MsgIds == 1..MaxMsgs

\* the outcomes of the query of the n-th delivered message: its device accepts
\* the connection or refuses it
MsgOutcomes(n) == { o \in BackendOutcomes(MsgRegSets) : o.op /\ o.open = msgs[n].open }

\* the process runs: no goroutine has panicked and main has not left Stop
Alive == ~panicked /\ stopPc # "returned"

\* main constructs the client with a ModbusHandler
Init ==
    /\ handler = "modbus"
    /\ ClientConstructed
    /\ TopicIdle
    /\ RequestIdle

\* the broker delivers a message: the client library calls the subscription
\* callback (part_004:69), which is about to send on messageCh
CallbackInvoke ==
    /\ Alive /\ connected /\ prod = 0
    /\ Len(msgs) < MaxMsgs
    /\ \E box \in Inboxes :
          /\ SubSeq(box, 1, Len(msgs)) = msgs
          /\ msgs' = Append(msgs, box[Len(msgs) + 1])
    /\ prod' = Len(msgs) + 1
    /\ UNCHANGED <<ticks, handler, messageCh, chClosed, connected, ctxDone, started,
                   stopPc, wpc, wmsg, wTopic, wResp, requestCounter, lpc, lcount,
                   logged, published, calls, dequeued, processed, atClose,
                   panicked, tvars, rvars>>

\* messageCh <- msg: blocks while the channel is full, panics when it is closed
CallbackSend ==
    /\ Alive /\ prod # 0
    /\ chClosed \/ Len(messageCh) < ChanCap
    /\ IF chClosed
       THEN panicked' = TRUE /\ UNCHANGED <<messageCh, prod>>
       ELSE /\ messageCh' = Append(messageCh, prod)
            /\ prod' = 0
            /\ UNCHANGED panicked
    /\ UNCHANGED <<ticks, handler, msgs, chClosed, connected, ctxDone, started, stopPc,
                   wpc, wmsg, wTopic, wResp, requestCounter, lpc, lcount, logged,
                   published, calls, dequeued, processed, atClose, tvars, rvars>>

\* Client.StartWorkers: c.workers goroutines ranging over c.messageCh
StartWorkers ==
    /\ Alive /\ ~started /\ stopPc = "running"
    /\ started' = TRUE
    /\ wpc' = [w \in Workers |-> "recv"]
    /\ UNCHANGED <<ticks, handler, msgs, prod, messageCh, chClosed, connected, ctxDone,
                   stopPc, wmsg, wTopic, wResp, requestCounter, lpc, lcount,
                   logged, published, calls, dequeued, processed, atClose,
                   panicked, tvars, rvars>>

\* AfterReceive that leaves the received message in the channel
AfterReceive_Kept(ch) == ch

\* the channel after a receive: the message received is taken out of it
AfterReceive(ch) == Tail(ch)

\* AtReceive that lets a worker receive while Handle is running
AtReceive_Busy(w) == wpc[w] \in {"recv", "handle"}

\* worker w is at the receive of its loop: it has just started, or the
\* processMessage of its previous message has returned
AtReceive(w) == wpc[w] = "recv"

\* for msg := range c.messageCh: receive the next message, or leave the loop
\* when the channel is closed and empty.  The workers run the same code and
\* a worker blocked in the receive holds no message: of the workers blocked
\* there, the one the runtime wakes up is taken to be the first
WorkerReceive(w) ==
    /\ Alive /\ AtReceive(w)
    /\ \A v \in Workers : v < w => ~AtReceive(v)
    /\ messageCh # <<>> \/ chClosed
    /\ IF messageCh # <<>>
       THEN /\ wmsg' = [wmsg EXCEPT ![w] = Head(messageCh)]
            /\ messageCh' = AfterReceive(messageCh)
            /\ dequeued' = dequeued \cup {Head(messageCh)}
            /\ wpc' = [wpc EXCEPT ![w] = "count"]
       ELSE /\ wpc' = [wpc EXCEPT ![w] = "exited"]
            /\ UNCHANGED <<wmsg, messageCh, dequeued>>
    /\ UNCHANGED <<ticks, handler, msgs, prod, chClosed, connected, ctxDone, started,
                   stopPc, wTopic, wResp, requestCounter, lpc, lcount, logged,
                   published, calls, processed, atClose, panicked, tvars, rvars>>

\* processMessage, first part: atomic.AddInt32(&c.requestCounter, 1), then
\* ParseTopic(msg.Topic(), c.cfg.RequestTopic); a mismatch returns
WorkerParseTopic(w) ==
    /\ Alive /\ wpc[w] = "count"
    /\ requestCounter' = requestCounter + 1
    /\ IF ParseTopic(MsgTopic(wmsg[w]), RequestTopic).ok
       THEN /\ wTopic' = [wTopic EXCEPT ![w] = ParseTopic(MsgTopic(wmsg[w]), RequestTopic)]
            /\ wpc' = [wpc EXCEPT ![w] = "handle"]
            /\ UNCHANGED <<processed, wmsg>>
       ELSE /\ wpc' = [wpc EXCEPT ![w] = "recv"]
            /\ processed' = processed \cup {wmsg[w]}
            /\ wmsg' = [wmsg EXCEPT ![w] = 0]
            /\ UNCHANGED wTopic
    /\ UNCHANGED <<ticks, handler, msgs, prod, messageCh, chClosed, connected, ctxDone,
                   started, stopPc, wResp, lpc, lcount, logged, published,
                   calls, dequeued, atClose, panicked, tvars, rvars>>

\* processMessage, second part: c.handler.Handle(msg.Topic(), payload); the
\* device answers with some outcome; a panic of the handler kills the process
WorkerHandle(w) ==
    /\ Alive /\ wpc[w] = "handle"
    /\ \E out \in MsgOutcomes(wmsg[w]) :
          LET r == Handle(handler, MsgPayload(wmsg[w]), out)
          IN  /\ calls' = IF r.parsed
                          THEN [calls EXCEPT ![wmsg[w]] = Append(@, r.request)]
                          ELSE calls
              /\ IF r.panic
                 THEN panicked' = TRUE /\ UNCHANGED <<wpc, wResp>>
                 ELSE /\ wResp' = [wResp EXCEPT ![w] = r.text]
                      /\ wpc' = [wpc EXCEPT ![w] = "publish"]
                      /\ UNCHANGED panicked
    /\ UNCHANGED <<ticks, handler, msgs, prod, messageCh, chClosed, connected, ctxDone,
                   started, stopPc, wmsg, wTopic, requestCounter, lpc, lcount,
                   logged, published, dequeued, processed, atClose, tvars, rvars>>

\* ResponseTopicOf with the parsed topic kept in one place for all workers
ResponseTopicOf_Shared(w) == [Format |-> ResponseTopic, Values |-> wTopic[1].Values]

\* the Topic built from c.cfg.ResponseTopic and requestTopic.Values by worker w
ResponseTopicOf(w) == [Format |-> ResponseTopic, Values |-> wTopic[w].Values]

\* processMessage, last part (its locals end with it): responseTopic.Build(), then Publish and
\* token.Wait(); a Build error returns without publishing; the publication
\* fails (ok = FALSE) when the connection is down
WorkerPublish(w) ==
    /\ Alive /\ wpc[w] = "publish"
    /\ IF Build(ResponseTopicOf(w)).ok
       THEN published' = [published EXCEPT ![wmsg[w]] =
                               Append(@, [topic |-> Build(ResponseTopicOf(w)).topic,
                                          payload |-> wResp[w],
                                          ok |-> connected])]
       ELSE UNCHANGED published
    /\ processed' = processed \cup {wmsg[w]}
    /\ wpc' = [wpc EXCEPT ![w] = "recv"]
    /\ wmsg' = [wmsg EXCEPT ![w] = 0]
    /\ wTopic' = [wTopic EXCEPT ![w] = NoTopic]
    /\ wResp' = [wResp EXCEPT ![w] = <<>>]
    /\ UNCHANGED <<ticks, handler, msgs, prod, messageCh, chClosed, connected, ctxDone,
                   started, stopPc, requestCounter, lpc,
                   lcount, logged, calls, dequeued, atClose, panicked, tvars, rvars>>

\* startRequestCounterLogger, case <-ticker.C: count := atomic.LoadInt32(...)
LoggerLoad ==
    /\ Alive /\ lpc = "select" /\ ticks < MaxTicks
    /\ ticks' = ticks + 1
    /\ lcount' = requestCounter
    /\ lpc' = "loaded"
    /\ UNCHANGED <<handler, msgs, prod, messageCh, chClosed, connected, ctxDone,
                   started, stopPc, wpc, wmsg, wTopic, wResp, requestCounter,
                   logged, published, calls, dequeued, processed, atClose,
                   panicked, tvars, rvars>>

\* atomic.StoreInt32(&c.requestCounter, 0), then the count is logged
LoggerStore ==
    /\ Alive /\ lpc = "loaded"
    /\ requestCounter' = 0
    /\ logged' = logged + lcount
    /\ lcount' = 0
    /\ lpc' = "select"
    /\ UNCHANGED <<ticks, handler, msgs, prod, messageCh, chClosed, connected, ctxDone,
                   started, stopPc, wpc, wmsg, wTopic, wResp, published,
                   calls, dequeued, processed, atClose, panicked, tvars, rvars>>

\* startRequestCounterLogger, case <-c.ctx.Done(): return
LoggerExit ==
    /\ Alive /\ lpc = "select" /\ ctxDone
    /\ lpc' = "exited"
    /\ UNCHANGED <<ticks, handler, msgs, prod, messageCh, chClosed, connected, ctxDone,
                   started, stopPc, wpc, wmsg, wTopic, wResp, requestCounter,
                   lcount, logged, published, calls, dequeued, processed, atClose,
                   panicked, tvars, rvars>>

\* Stop: c.cancelFunc(); main calls Stop after StartWorkers
StopCancel ==
    /\ Alive /\ started /\ stopPc = "running"
    /\ ctxDone' = TRUE
    /\ stopPc' = "cancelled"
    /\ UNCHANGED <<ticks, handler, msgs, prod, messageCh, chClosed, connected, started,
                   wpc, wmsg, wTopic, wResp, requestCounter, lpc, lcount, logged,
                   published, calls, dequeued, processed, atClose, panicked,
                   tvars, rvars>>

\* Stop: c.mqttClient.Disconnect(250)
StopDisconnect ==
    /\ Alive /\ stopPc = "cancelled"
    /\ connected' = FALSE
    /\ stopPc' = "disconnected"
    /\ UNCHANGED <<ticks, handler, msgs, prod, messageCh, chClosed, ctxDone, started,
                   wpc, wmsg, wTopic, wResp, requestCounter, lpc, lcount, logged,
                   published, calls, dequeued, processed, atClose, panicked,
                   tvars, rvars>>

\* Stop: close(c.messageCh)
StopClose ==
    /\ Alive /\ stopPc = "disconnected"
    /\ chClosed' = TRUE
    /\ atClose' = { messageCh[i] : i \in 1..Len(messageCh) }
    /\ stopPc' = "waiting"
    /\ UNCHANGED <<ticks, handler, msgs, prod, messageCh, connected, ctxDone, started,
                   wpc, wmsg, wTopic, wResp, requestCounter, lpc, lcount, logged,
                   published, calls, dequeued, processed, panicked, tvars, rvars>>

\* Stop: c.wg.Wait() returns when the workers and the counter goroutine are done
StopReturn ==
    /\ Alive /\ stopPc = "waiting"
    /\ \A w \in Workers : wpc[w] = "exited"
    /\ lpc = "exited"
    /\ stopPc' = "returned"
    /\ UNCHANGED <<ticks, handler, msgs, prod, messageCh, chClosed, connected, ctxDone,
                   started, wpc, wmsg, wTopic, wResp, requestCounter, lpc, lcount,
                   logged, published, calls, dequeued, processed, atClose,
                   panicked, tvars, rvars>>

Next ==
    \/ CallbackInvoke
    \/ CallbackSend
    \/ StartWorkers
    \/ \E w \in Workers : WorkerReceive(w)
    \/ \E w \in Workers : WorkerParseTopic(w)
    \/ \E w \in Workers : WorkerHandle(w)
    \/ \E w \in Workers : WorkerPublish(w)
    \/ LoggerLoad
    \/ LoggerStore
    \/ LoggerExit
    \/ StopCancel
    \/ StopDisconnect
    \/ StopClose
    \/ StopReturn

Spec == Init /\ [][Next]_vars

(***************************************************************************)
(* Properties of the topic functions (checked under SpecTopic).            *)
(***************************************************************************)
\* indices of the placeholder segments of a format
PlaceholderIdx(format) ==
    { i \in 1..Len(Split(format, "/")) : IsPlaceholderPart(Split(format, "/")[i]) }

\* every placeholder name of the format is bound by the address to one value
SingleValued(format, addr) ==
    \A i, j \in PlaceholderIdx(format) :
        PlaceholderKey(Split(format, "/")[i]) = PlaceholderKey(Split(format, "/")[j])
            => Split(addr, "/")[i] = Split(addr, "/")[j]

RoundTripDone == tStep = "built" /\ tResp = tFormat

\* C5 (as claimed): for every format F and every address A that ParseTopic
\* accepts against F, Build of F with the parsed values yields exactly A, also
\* when a placeholder name occurs in more than one segment of F.
C5_RoundTripAnyFormat ==
    RoundTripDone => tBuilt.ok /\ tBuilt.topic = tAddr

\* C5 (amended): for every format F and every address A that ParseTopic
\* accepts against F and that gives equal values to the segments sharing a
\* placeholder name, Build of F with the parsed values yields exactly A.
C5_RoundTrip ==
    (RoundTripDone /\ SingleValued(tFormat, tAddr))
        => tBuilt.ok /\ tBuilt.topic = tAddr

\* C5 witness: a round trip through a format with two placeholder segments of
\* the same name, bound to the same value, and a literal-free rebuilt address.
C5_Witness ==
    /\ RoundTripDone
    /\ SingleValued(tFormat, tAddr)
    /\ tBuilt.ok
    /\ \E i, j \in PlaceholderIdx(tFormat) :
          /\ i # j
          /\ PlaceholderKey(Split(tFormat, "/")[i])
                = PlaceholderKey(Split(tFormat, "/")[j])

\* the pattern that replaces exactly the placeholder segments by "+"
SegmentWildcard(format) ==
    Join([i \in 1..Len(Split(format, "/")) |->
             IF IsPlaceholderPart(Split(format, "/")[i])
             THEN <<"+">>
             ELSE Split(format, "/")[i]], "/")

\* C6: WithWildcard(F) replaces by "+" exactly the segments of F that
\* ParseTopic and Build treat as placeholders (first character "{", last
\* character "}") and leaves every other segment unchanged.
C6_WildcardExactlyPlaceholders ==
    tStep \in {"subscribed", "parsed", "rejected", "built"}
        => tWild = SegmentWildcard(tFormat)

(***************************************************************************)
(* Properties of the request grammar and of Handle (checked under          *)
(* SpecRequest).                                                           *)
(***************************************************************************)
\* TRUE iff seq starts with the elements of prefix
StartsWith(seq, prefix) ==
    Len(seq) >= Len(prefix) /\ SubSeq(seq, 1, Len(prefix)) = prefix

\* token k (0-indexed) of the payload under evaluation
RTok(k) == Fields(rPayload)[k + 1]

RLen == Len(Fields(rPayload))

\* the cookie token has been parsed successfully
CookieParsed == RLen >= 9 /\ ParseUint(RTok(1), 64).ok

\* C3: the cookie of the error response to a payload that fails validation is
\* 0 when the failure occurs before the cookie token is parsed and the parsed
\* cookie when it occurs after.
C3_ErrorCookie ==
    (rStep = "handled" /\ ~rResult.parsed)
        => StartsWith(rResult.text,
               Itoa(IF CookieParsed THEN ParseUint(RTok(1), 64).val ELSE 0)
                   \o <<" ERROR: ">>)

\* C4: a parsed payload whose register-number token is N >= 1 hands the
\* backend a request with registerOffset = N - 1.
C4_RegisterOffset ==
    (rStep = "handled" /\ rResult.parsed /\ DecVal(RTok(8)) >= 1)
        => rResult.request.RegisterAddress = DecVal(RTok(8)) - 1

\* tokens that are valid for their field, written out
OkCookieToks == { <<"3">>, <<"7">>, <<"4", "2">> }

OkPortToks == { <<"1">>, <<"5", "0", "2">>, <<"6", "5", "5", "3", "5">> }

OkTimeoutToks == { <<"1">>, <<"5">>, <<"9", "9", "9">>, <<"+", "5">> }

OkUnitToks == { <<"1">>, <<"2", "5", "5">> }

OkRegisterToks == { <<"0">>, <<"1">>, <<"1", "0">>, <<"1", "0", "0">>,
                    <<"6", "5", "5", "3", "5">> }

\* the tokens of the fixed fields are valid, those in skip excepted
FixedValid(skip) ==
    /\ RLen = 11
    /\ 1 \in skip \/ RTok(1) \in OkCookieToks
    /\ 4 \in skip \/ RTok(4) \in OkPortToks
    /\ 5 \in skip \/ RTok(5) \in OkTimeoutToks
    /\ 6 \in skip \/ RTok(6) \in OkUnitToks
    /\ 8 \in skip \/ RTok(8) \in OkRegisterToks

\* a payload of 11 tokens whose every token but the fields in skip is valid
\* for a read (code 3)
ValidExcept(skip) ==
    FixedValid(skip) /\ RTok(7) = <<"3">> /\ RTok(9) = <<"2">>

Rejected(prefix) == ~rParsed.ok /\ rParsed.req = NilRequest /\ rParsed.err[1] = prefix

\* C7: parseRequest accepts a payload only if port is in 1..65535, timeout in
\* 1..999 and unit id in 1..255; port 0 and 65536, timeout 0 and 1000, unit
\* id 0 and 256 are rejected with the error of their field; port 1 and 65535,
\* timeout 1 and 999, unit id 1 and 255 are accepted, the other tokens valid.
C7_FieldBounds ==
    rStep \in {"parsed", "handled"} =>
        /\ rParsed.ok =>
              /\ rParsed.req.Port \in 1..65535
              /\ rParsed.req.Timeout \in 1..999
              /\ rParsed.req.SlaveID \in 1..255
        /\ (ValidExcept({4}) /\ RTok(4) \in {<<"0">>, <<"6", "5", "5", "3", "6">>})
              => Rejected("invalid PORT value: ")
        /\ (ValidExcept({5}) /\ RTok(5) \in {<<"0">>, <<"1", "0", "0", "0">>})
              => Rejected("invalid TIMEOUT value: ")
        /\ (ValidExcept({6}) /\ RTok(6) \in {<<"0">>, <<"2", "5", "6">>})
              => Rejected("invalid SLAVE_ID value: ")
        /\ (ValidExcept({4}) /\ RTok(4) \in {<<"1">>, <<"6", "5", "5", "3", "5">>})
              => rParsed.ok /\ rParsed.req.Port = DecVal(RTok(4))
        /\ (ValidExcept({5}) /\ RTok(5) \in {<<"1">>, <<"9", "9", "9">>})
              => rParsed.ok /\ rParsed.req.Timeout = DecVal(RTok(5))
        /\ (ValidExcept({6}) /\ RTok(6) \in {<<"1">>, <<"2", "5", "5">>})
              => rParsed.ok /\ rParsed.req.SlaveID = DecVal(RTok(6))

\* C7 witness: the six boundary tokens of one field each, rejected on the
\* outside and accepted on the inside; here the port 65536 has been rejected.
C7_Witness ==
    /\ rStep = "parsed"
    /\ ValidExcept({4})
    /\ RTok(4) = <<"6", "5", "5", "3", "6">>
    /\ ~rParsed.ok

\* a payload for code 15 or 16 whose tokens are all valid numbers
WriteMultiple ==
    /\ FixedValid({})
    /\ RTok(7) \in { <<"1", "5">>, <<"1", "6">> }
    /\ RTok(9) \in { <<"0">>, <<"1">>, <<"2">>, <<"4">> }
    /\ \A i \in 1..Len(RTok(10)) : RTok(10)[i] \in {"5", "9", ","}
    /\ RTok(10)[1] # "," /\ RTok(10)[Len(RTok(10))] # ","
    /\ \A i \in 1..(Len(RTok(10)) - 1) : ~(RTok(10)[i] = "," /\ RTok(10)[i + 1] = ",")

\* the number of comma-separated values of token 10
ValueCount == Cardinality({ i \in 1..Len(RTok(10)) : RTok(10)[i] = "," }) + 1

\* C8: for codes 15 and 16 parseRequest succeeds only if the number of
\* comma-separated values of token 10 equals the register count of token 9;
\* otherwise it fails with the count-mismatch error and returns no request;
\* every parsed code-15/16 request has len(values) = registerCount.
C8_CountMatch ==
    rStep \in {"parsed", "handled"} =>
        /\ (rParsed.ok /\ rParsed.req.FunctionCode \in {15, 16})
              => Len(rParsed.req.Data) = rParsed.req.RegisterCount
        /\ (WriteMultiple /\ ValueCount # DecVal(RTok(9)))
              => /\ Rejected("mismatch between REGISTER_COUNT and DATA length")
                 /\ Len(rParsed.err) = 1
        /\ (WriteMultiple /\ ValueCount = DecVal(RTok(9)))
              => /\ rParsed.ok
                 /\ rParsed.req.RegisterCount = ValueCount
                 /\ Len(rParsed.req.Data) = ValueCount

\* C8 witness: a code-16 payload declaring 2 registers and carrying 1 value
\* has been rejected.
C8_Witness ==
    /\ rStep = "parsed"
    /\ WriteMultiple
    /\ RTok(7) = <<"1", "6">>
    /\ RTok(9) = <<"2">>
    /\ ValueCount = 1
    /\ ~rParsed.ok

(***************************************************************************)
(* Properties of the dispatcher (checked under Spec).                      *)
(***************************************************************************)
\* message m has been sent on messageCh
Enqueued(m) == m \in 1..Len(msgs) /\ m # prod

\* the address of message m has the form modbus/<device>/request
AddressMatches(m) == msgs[m].topic \notin {W_status, W_modbus}

\* message m is valid: its address matches and its payload is a well-formed
\* command for a supported operation
ValidMsg(m) == AddressMatches(m) /\ msgs[m].kind \in {"read", "write"}

\* the text starts with the cookie of message m followed by OK or ERROR
BearsCookieOf(text, m) ==
    /\ StartsWith(text, CookieTok(m))
    /\ Len(text) > Len(CookieTok(m))
    /\ text[Len(CookieTok(m)) + 1] \in {" OK", " OK ", " ERROR: "}

\* nothing is left to do: the process is dead or has left Stop, or the
\* workers run and every delivered message has been taken through
Quiescent ==
    \/ panicked
    \/ stopPc = "returned"
    \/ /\ started /\ prod = 0 /\ messageCh = <<>>
       /\ \A w \in Workers : wpc[w] \in {"recv", "exited"}

\* C1: with the workers started and the valid messages enqueued, no two on
\* the same address, the gateway ends up having published exactly one
\* response per message, each bearing the cookie of its own request.
C1_EveryValidMessageAnswered ==
    (/\ Quiescent
     /\ started
     /\ \A m \in 1..Len(msgs) : ValidMsg(m)
     /\ \A m, n \in 1..Len(msgs) : m # n => msgs[m].topic # msgs[n].topic)
        => \A m \in 1..Len(msgs) :
              Enqueued(m) => /\ Len(published[m]) = 1
                             /\ BearsCookieOf(published[m][1].payload, m)

\* C2: every dequeued message whose address matches the request format gets
\* exactly one published response, whatever becomes of parsing and execution.
C2_ExactlyOneResponse ==
    /\ \A m \in MsgIds : Len(published[m]) <= 1
    /\ Quiescent =>
          \A m \in dequeued : AddressMatches(m) => Len(published[m]) = 1

\* the response address of message m: modbus/<device>/response
ResponseAddress(m) == Join(<<W_modbus, msgs[m].topic, W_response>>, "/")

\* C9: every response is published to the response format filled with the
\* placeholder values of the inbound address of the same message, under any
\* interleaving of the workers.
C9_ResponseAddress ==
    \A m \in MsgIds : \A i \in 1..Len(published[m]) :
        AddressMatches(m) /\ published[m][i].topic = ResponseAddress(m)

\* C9 witness: the response to the second message (device dev2) has been
\* published while a worker still holds the first message (device dev1).
C9_Witness ==
    /\ Len(msgs) >= 2
    /\ msgs[1].topic = W_dev1 /\ msgs[2].topic = W_dev2
    /\ Len(published[2]) = 1
    /\ published[2][1].topic = Join(<<W_modbus, W_dev2, W_response>>, "/")
    /\ \E w \in Workers : wmsg[w] = 1 /\ wpc[w] = "publish"

\* C10: shutdown drains: every message in the queue when Stop closes it is
\* dequeued and fully processed, workers exit only once the closed queue is
\* empty, and Stop returns only after all workers and the counter task ended.
C10_ShutdownDrains ==
    /\ (chClosed /\ Quiescent) => atClose \subseteq processed
    /\ \A w \in Workers : wpc[w] = "exited" => chClosed /\ messageCh = <<>>
    /\ stopPc = "returned" => /\ \A w \in Workers : wpc[w] = "exited"
                              /\ lpc = "exited"

\* the number of places of the queue that hold message m
InQueue(m) == Cardinality({ i \in 1..Len(messageCh) : messageCh[i] = m })

\* the number of workers that hold message m
HeldBy(m) == Cardinality({ w \in Workers : wmsg[w] = m })

\* C11: the queue never holds more than workerCount x 10 messages, and no
\* message delivered to the callback is dropped or duplicated: it is never in
\* two places at once, never back in the queue once dequeued, and when
\* nothing is left to do it has been enqueued and dequeued.
C11_NoMessageLost ==
    /\ Len(messageCh) <= NumWorkers * 10
    /\ \A m \in 1..Len(msgs) :
          /\ InQueue(m) + HeldBy(m) <= 1
          /\ m \in dequeued => InQueue(m) = 0
    /\ Quiescent => \A m \in 1..Len(msgs) : Enqueued(m) /\ m \in dequeued

(***************************************************************************)
(* Further properties of Handle (checked under SpecRequest).               *)
(***************************************************************************)
\* what the query function of the handler under evaluation returned
RQuery ==
    IF rHandler = "modbus"
    THEN executeModbusQuery(rResult.request, rOut)
    ELSE executeDummyQuery(rResult.request)

\* the backend call of a parsed request has succeeded
RQuerySucceeded == rStep = "handled" /\ rResult.parsed /\ ~rResult.panic /\ RQuery.ok

\* C12: when the backend call of a parsed request succeeds the response is
\* "<cookie> OK" for an empty result and "<cookie> OK " followed by the
\* results, space-separated, otherwise; payload "CMD 42 ACT 10.0.0.5 502 5 1
\* 3 100 4" with result [10,20,30,40] answers "42 OK 10 20 30 40", the backend
\* having been asked for a holding-register read at offset 99, count 4.
C12_OkResponse ==
    /\ RQuerySucceeded =>
          rResult.text =
             IF Len(RQuery.response) = 0
             THEN Itoa(rResult.request.Cookie) \o <<" OK">>
             ELSE Itoa(rResult.request.Cookie) \o <<" OK ">>
                      \o Join(RQuery.response, " ")
    /\ (/\ rStep = "handled" /\ rHandler = "modbus" /\ rPayload = Scenario1
        /\ rOut = [open |-> TRUE, op |-> TRUE, regs |-> <<10, 20, 30, 40>>])
          => /\ rResult.text = <<"4", "2", " OK ", "1", "0", " ", "2", "0", " ",
                                 "3", "0", " ", "4", "0">>
             /\ rResult.request.FunctionCode = 3
             /\ rResult.request.RegisterAddress = 99
             /\ rResult.request.RegisterCount = 4

\* C13: the backend is invoked only for a payload that parseRequest accepted:
\* a parse failure makes no backend call, and every request handed to the
\* backend is the fully populated request of the parse, with port in
\* 1..65535, timeout in 1..999 seconds and unit id in 1..255.
C13_BackendOnlyForAccepted ==
    rStep = "handled" =>
        /\ rResult.parsed <=> rParsed.ok
        /\ ~rParsed.ok => /\ rResult.request = NilRequest
                          /\ ~rResult.panic
                          /\ StartsWith(rResult.text, <<"0", " ERROR: ">>)
        /\ rResult.parsed =>
              /\ rResult.request = rParsed.req
              /\ rResult.request.Cookie = DecVal(RTok(1))
              /\ rResult.request.IPAddress = RTok(3)
              /\ rResult.request.Port \in 1..65535
              /\ rResult.request.Timeout \in 1..999
              /\ rResult.request.SlaveID \in 1..255
              /\ rResult.request.FunctionCode = DecVal(RTok(7))

\* C13 witness: a payload with timeout 1000, otherwise valid, has been handled
\* without any request reaching the backend.
C13_Witness ==
    /\ rStep = "handled"
    /\ ValidExcept({5})
    /\ RTok(5) = <<"1", "0", "0", "0">>
    /\ ~rResult.parsed
    /\ rResult.request = NilRequest

\* C14: whenever the backend executes a request with operation code 5 or 6,
\* the values of the request have an element at index 0, and the payload is
\* carried through execution to a response without the worker failing.
C14_WriteSingleHasValue ==
    (/\ rStep = "handled" /\ rResult.parsed
     /\ rResult.request.FunctionCode \in {5, 6}
     /\ rHandler = "modbus" /\ rOut.open)
        => /\ Len(rResult.request.Data) >= 1
           /\ ~rResult.panic
           /\ rResult.text # <<>>

(***************************************************************************)
(* Further properties of the dispatcher (checked under Spec).              *)
(***************************************************************************)
\* no worker is between its receive and its increment of the counter, and
\* the counter goroutine is not between its load and its store
CounterSettled ==
    /\ \A w \in Workers : wpc[w] # "count"
    /\ lpc # "loaded"

\* C15: every dequeued message increments the counter exactly once whatever
\* its outcome, and the periodic read-and-reset loses none of the increments:
\* the samples emitted so far plus the current counter make the number of
\* messages dequeued so far.
C15_CounterConservation ==
    CounterSettled => logged + requestCounter = Cardinality(dequeued)

\* C16: a dequeued message whose address does not match the request format is
\* discarded: the handler is never invoked for it and nothing is published
\* for it, and the worker that discarded it is back at the receive.
C16_MismatchDiscarded ==
    \A m \in 1..Len(msgs) :
        ~AddressMatches(m) =>
            /\ calls[m] = <<>>
            /\ published[m] = <<>>
            /\ \A w \in Workers : wmsg[w] = m => wpc[w] = "count"
            /\ (m \in dequeued /\ HeldBy(m) = 0) => m \in processed

\* C16 witness: the second message, sent to modbus/dev1/status (a literal
\* segment differs), has been dequeued and discarded, and the worker that
\* discarded it waits for the next message while the other worker is still
\* busy with the first.
C16_Witness ==
    /\ Len(msgs) >= 2
    /\ MsgTopic(2) = Join(<<W_modbus, W_dev1, W_status>>, "/")
    /\ 2 \in processed
    /\ published[2] = <<>> /\ calls[2] = <<>>
    /\ wpc[1] = "publish" /\ wmsg[1] = 1
    /\ wpc[2] = "recv"
    /\ requestCounter + logged >= 1

\* C16, second case: the first message, sent to modbus/dev1 (one segment
\* short), has been discarded by the worker that now handles the second.
C16_WitnessShort ==
    /\ Len(msgs) >= 2
    /\ MsgTopic(1) = Join(<<W_modbus, W_dev1>>, "/")
    /\ 1 \in processed
    /\ published[1] = <<>> /\ calls[1] = <<>>
    /\ wmsg[1] = 2 /\ wpc[1] = "publish"

\* the responses Handle can give to message m: one per outcome of its device
OwnResponses(m) ==
    { Handle(handler, MsgPayload(m), out).text : out \in MsgOutcomes(m) }

\* C17: each dequeued message causes at most one backend execution and at
\* most one publish call, failures included; and the call made for a message
\* carries the response to that message and goes to its own address, whether
\* or not the publication of another message failed.
C17_AtMostOnce ==
    \A m \in MsgIds :
        /\ Len(calls[m]) <= 1
        /\ Len(published[m]) <= 1
        /\ (calls[m] # <<>> \/ published[m] # <<>>) => m \in dequeued
        /\ \A i \in 1..Len(published[m]) :
              /\ published[m][i].payload \in OwnResponses(m)
              /\ published[m][i].topic = ResponseAddress(m)

\* C17 witness: the publication of the response to the first message failed
\* (the connection was down) and was not repeated; the backend refused the
\* second message, which was executed once and answered once with its own
\* error response.
C17_Witness ==
    /\ Len(msgs) >= 2
    /\ Len(published[1]) = 1 /\ ~published[1][1].ok
    /\ 1 \in processed /\ Len(calls[1]) = 1
    /\ Len(calls[2]) = 1 /\ Len(published[2]) = 1
    /\ published[2][1].payload
          = CookieTok(2) \o <<" ERROR: ", "failed to connect to Modbus server: ", "refused">>

\* the messages in processing: received by a worker whose processMessage has
\* not returned
InProcessing == dequeued \ processed

\* C18: a worker holds one message from its receive until processMessage
\* returns and receives nothing meanwhile: the messages in processing are
\* exactly those the busy workers hold, one each, so they are at most
\* workerCount and none is processed by two workers.
C18_SequentialWorkers ==
    /\ InProcessing = { wmsg[w] : w \in { v \in Workers : wmsg[v] # 0 } }
    /\ Cardinality(InProcessing) <= NumWorkers
    /\ \A w \in Workers : wmsg[w] # 0 <=> wpc[w] \in {"count", "handle", "publish"}
    /\ \A v, w \in Workers : (v # w /\ wmsg[v] # 0) => wmsg[v] # wmsg[w]
    /\ \A m \in MsgIds : Len(calls[m]) <= 1 /\ Len(published[m]) <= 1

\* C18 witness: worker 1 has taken the first message through processMessage
\* and only then received the second, which it is handling while worker 2
\* waits at the receive.
C18_Witness ==
    /\ processed = {1}
    /\ wmsg[1] = 2 /\ wpc[1] = "handle"
    /\ wpc[2] = "recv" /\ wmsg[2] = 0
    /\ Len(published[1]) = 1

\* a payload of at least 9 tokens whose cookie, port, timeout, unit id and
\* register number are valid
FieldsValid ==
    /\ RLen >= 9
    /\ RTok(1) \in OkCookieToks
    /\ RTok(4) \in OkPortToks
    /\ RTok(5) \in OkTimeoutToks
    /\ RTok(6) \in OkUnitToks
    /\ RTok(8) \in OkRegisterToks

\* the operation codes the backend supports
SupportedCodes == {1, 2, 3, 4, 5, 6, 15, 16}

\* the operation code token is a code (0..255) that is not supported
UnsupportedCode ==
    /\ AllDigits(RTok(7)) /\ Len(RTok(7)) <= 3
    /\ DecVal(RTok(7)) \in (0..255) \ SupportedCodes

\* C19: a payload whose operation code is not one of 1,2,3,4,5,6,15,16 is
\* accepted by parseRequest with 9 tokens or more, and the request ends in a
\* "<cookie> ERROR: ..." response bearing the parsed cookie, never in OK.
C19_UnsupportedCodeRejected ==
    (rStep \in {"parsed", "handled"} /\ FieldsValid /\ UnsupportedCode) =>
        /\ rParsed.ok
        /\ rParsed.req.FunctionCode = DecVal(RTok(7))
        /\ rStep = "handled" =>
              /\ ~rResult.panic
              /\ StartsWith(rResult.text, Itoa(DecVal(RTok(1))) \o <<" ERROR: ">>)

(***************************************************************************)
(* Shutdown under the scheduling the Go runtime gives: a goroutine that    *)
(* can take its next step takes it.  Deliveries, ticks and the calls of    *)
(* main stay up to the environment, and so does the return of a call into  *)
(* the device or into the broker client.  No behaviour repeats a state     *)
(* (messages and ticks are bounded), so fairness on the steps taken        *)
(* together lets none of them wait for ever.                               *)
(***************************************************************************)
\* a step of the callback, of a worker outside Handle and Publish, of the
\* counter goroutine, or of Stop once it has been called
GoroutineStep ==
    \/ CallbackSend
    \/ \E w \in Workers : WorkerReceive(w)
    \/ \E w \in Workers : WorkerParseTopic(w)
    \/ LoggerStore
    \/ LoggerExit
    \/ StopDisconnect
    \/ StopClose
    \/ StopReturn

Fairness == WF_vars(GoroutineStep)

SpecLive == Init /\ [][Next]_vars /\ Fairness

\* Stop has returned after the counter goroutine and every worker ended
ShutdownDone ==
    /\ stopPc = "returned"
    /\ lpc = "exited"
    /\ \A w \in Workers : wpc[w] = "exited"

\* no worker is inside Handle or inside Publish
CallsReturned == \A w \in Workers : wpc[w] \notin {"handle", "publish"}

\* C20: once Stop is called, and provided every in-flight backend and publish
\* call returns, the counter goroutine exits on the cancellation, every
\* worker exits after the queue is drained and Stop returns; cancellation
\* without the closing of the queue ends no worker.
C20_ShutdownTerminates ==
    /\ [](\A w \in Workers : wpc[w] = "exited" => chClosed /\ messageCh = <<>>)
    /\ [](lpc = "exited" => ctxDone)
    /\ ([]<>CallsReturned) => ((stopPc = "cancelled") ~> ShutdownDone)

(***************************************************************************)
(* Properties of the dispatcher during Stop (checked under Spec).          *)
(***************************************************************************)
\* the subscription callback is at its send on the queue, about to send or
\* blocked, or has panicked there
CallbackAtSend == prod # 0

\* C21: in no reachable state is the subscription callback sending, or
\* blocked sending, on the queue after Stop has closed it, and the queue is
\* closed once, by the close of Stop.
C21_NoSendOnClosedQueue ==
    /\ ~(chClosed /\ CallbackAtSend)
    /\ chClosed <=> stopPc \in {"waiting", "returned"}

\* C22: no Publish call is made after Stop has disconnected the broker
\* connection, and every message drained from the queue during shutdown has
\* had its response published while the connection was up.
C22_PublishedWhileConnected ==
    /\ \A m \in MsgIds : \A i \in 1..Len(published[m]) : published[m][i].ok
    /\ \A m \in atClose :
          (m \in processed /\ AddressMatches(m)) =>
              /\ Len(published[m]) = 1
              /\ published[m][1].ok

=============================================================================
